---- MODULE Spec2Model ----
(***************************************************************************)
(* A model of mpi4pyd: the instance registry of get_BufferComm_obj, and    *)
(* the buffer-aware bcast and gather of the BufferComm class, run by the   *)
(* ranks of one process group over an MPI transport.                       *)
(***************************************************************************)
EXTENDS Integers, Sequences, FiniteSets, TLC

VARIABLES
    \* ---- one process: the module state of _buffer_comm.py
    buffer_comm_registry,  \* dict: hex(id(comm)) -> BufferComm instance
    wraps,                 \* BufferComm instance -> the comm its class closes over
    pcImport,              \* position in the module's last two statements
    BUFFER_COMM_SELF,      \* module global, None until assigned
    BUFFER_COMM_WORLD,     \* module global, None until assigned
    call,                  \* the latest get_BufferComm_obj call and its outcome
    firstRet,              \* history: comm -> what the first call on it returned
    \* ---- one handle and its BufferComm: their attributes
    commDict,              \* the handle's instance attributes, comm.__dict__
    selfDict,              \* the BufferComm's own instance attributes
    access,                \* the latest attribute write or deletion
    \* ---- one dummyMPI.Comm and the Python objects handed to its methods
    heap,                  \* address -> the object living there
    emuCall,               \* the latest call of a Comm method and its outcome
    \* ---- one process group: every rank inside one BufferComm method
    op,                    \* the method all ranks call: "bcast" or "gather"
    root,                  \* the root argument, the same on every rank
    eager,                 \* transport: does a send complete before it is matched
    junk,                  \* what np.empty's uninitialised cells happen to hold
    objArg,                \* rank -> the obj argument it passed
    obj,                   \* rank -> the method's local variable obj
    pc,                    \* rank -> where it is in the method
    posts,                 \* transport: rank -> the collectives it has entered
    completed,             \* transport: rank -> how many of them have completed
    shapes,                \* rank -> gather's local variable shapes
    buff,                  \* rank -> gather's local variable buff
    ret,                   \* rank -> the method's return value
    exc,                   \* rank -> the exception the method raised
    msg                    \* rank -> the two numbers in bcast's InputError

regVars == <<buffer_comm_registry, wraps, pcImport, BUFFER_COMM_SELF,
            BUFFER_COMM_WORLD, call, firstRet>>

groupVars == <<op, root, eager, junk, objArg, obj, pc, posts, completed, shapes,
               buff, ret, exc, msg>>

attrVars == <<commDict, selfDict, access>>

emuVars == <<heap, emuCall>>

vars == <<buffer_comm_registry, wraps, pcImport, BUFFER_COMM_SELF,
          BUFFER_COMM_WORLD, call, firstRet, commDict, selfDict, access,
          heap, emuCall,
          op, root, eager, junk, objArg, obj, pc, posts, completed, shapes,
          buff, ret, exc, msg>>

(***************************************************************************)
(* Objects.  An object is represented by its address, which is what id()   *)
(* returns.                                                                *)
(***************************************************************************)
NumExtraHandles == 2     \* intra-communicators besides COMM_WORLD, COMM_SELF
AddrBase == 14           \* lowest address of the modelled heap
AddrSlack == 0           \* addresses left free once every handle is wrapped

\* None, the null object: no object lives at address 0.
None == 0

COMM_WORLD == AddrBase
COMM_SELF == AddrBase + 1
Handles == AddrBase..(AddrBase + 1 + NumExtraHandles)
\* An object that is no intra-communicator (an int, a string, a plain Comm).
Others == {AddrBase + 2 + NumExtraHandles}
\* Where new BufferComm instances can be allocated.
WrapperAddrs ==
    (AddrBase + 3 + NumExtraHandles)..
        (AddrBase + 2 + NumExtraHandles + Cardinality(Handles) + AddrSlack)

Range(f) == {f[x] : x \in DOMAIN f}

HexChar == <<"0", "1", "2", "3", "4", "5", "6", "7",
             "8", "9", "a", "b", "c", "d", "e", "f">>

RECURSIVE HexDigits(_)
HexDigits(n) ==
    IF n < 16 THEN <<HexChar[n + 1]>>
    ELSE Append(HexDigits(n \div 16), HexChar[(n % 16) + 1])

\* hex(id(comm)): the registry's key for an object.
Hex(n) == <<"0", "x">> \o HexDigits(n)

\* isinstance(comm, (MPI.Intracomm, dummyMPI.Intracomm)): a BufferComm class
\* derives from comm.__class__, so its instances are intra-communicators too.
AnyObjectIsIntracomm(o) == TRUE
IsIntracomm(o) == o \in Handles \/ o \in DOMAIN wraps

\* The key a fresh wrapper is registered under.
RegKeyOfWrapper(comm, buffer_comm) == Hex(buffer_comm)
RegKey(comm, buffer_comm) == Hex(comm)

\* "hex(id(comm)) in buffer_comm_registry.keys()"
NeverRegistered(comm) == FALSE
HasBufferComm(comm) == Hex(comm) \in DOMAIN buffer_comm_registry

\* "comm in buffer_comm_registry.values()"
NeverABufferComm(comm) == FALSE
IsBufferComm(comm) == comm \in Range(buffer_comm_registry)

\* "buffer_comm_registry[hex(id(comm))] = buffer_comm"
RegisterAlone(registry, key, buffer_comm) == (key :> buffer_comm)
Register(registry, key, buffer_comm) == (key :> buffer_comm) @@ registry

FreeAddrs == WrapperAddrs \ DOMAIN wraps

\* The history of first results; it does not influence the program.
NoteFirst(comm, result) ==
    firstRet' = IF comm \in DOMAIN firstRet THEN firstRet
                ELSE firstRet @@ (comm :> result)

\* "if comm is None: comm = MPI.COMM_WORLD"
DefaultCommSelf == COMM_SELF
DefaultComm == COMM_WORLD

\* get_BufferComm_obj(arg), the whole function.  call.fresh tells whether the
\* call reached "buffer_comm = BufferComm()".
GetBufferCommObj(arg) ==
    LET comm == IF arg = None THEN DefaultComm ELSE arg IN
    IF arg # None /\ ~IsIntracomm(arg)
    THEN /\ call' = [arg |-> arg, exc |-> "TypeError", ret |-> None,
                     fresh |-> FALSE]
         /\ UNCHANGED <<buffer_comm_registry, wraps, firstRet>>
    ELSE IF HasBufferComm(comm)
    THEN /\ call' = [arg |-> arg, exc |-> "none",
                     ret |-> buffer_comm_registry[Hex(comm)],
                     fresh |-> FALSE]
         /\ NoteFirst(comm, buffer_comm_registry[Hex(comm)])
         /\ UNCHANGED <<buffer_comm_registry, wraps>>
    ELSE IF IsBufferComm(comm)
    THEN /\ call' = [arg |-> arg, exc |-> "none", ret |-> comm,
                     fresh |-> FALSE]
         /\ NoteFirst(comm, comm)
         /\ UNCHANGED <<buffer_comm_registry, wraps>>
    ELSE \E buffer_comm \in FreeAddrs :
         /\ wraps' = wraps @@ (buffer_comm :> comm)
         /\ buffer_comm_registry' =
                Register(buffer_comm_registry, RegKey(comm, buffer_comm),
                         buffer_comm)
         /\ call' = [arg |-> arg, exc |-> "none", ret |-> buffer_comm,
                     fresh |-> TRUE]
         /\ NoteFirst(comm, buffer_comm)

\* BUFFER_COMM_SELF = get_BufferComm_obj(MPI.COMM_SELF)
ImportSelf ==
    /\ pcImport = "start"
    /\ GetBufferCommObj(COMM_SELF)
    /\ BUFFER_COMM_SELF' = call'.ret
    /\ pcImport' = "self_done"
    /\ UNCHANGED BUFFER_COMM_WORLD

\* BUFFER_COMM_WORLD = get_BufferComm_obj(MPI.COMM_WORLD)
ImportWorld ==
    /\ pcImport = "self_done"
    /\ GetBufferCommObj(COMM_WORLD)
    /\ BUFFER_COMM_WORLD' = call'.ret
    /\ pcImport' = "ready"
    /\ UNCHANGED BUFFER_COMM_SELF

\* A caller's get_BufferComm_obj(arg), arg any object it can hold.
CallGetBufferCommObj ==
    /\ pcImport = "ready"
    /\ \E arg \in {None} \cup Handles \cup Others \cup DOMAIN wraps :
           GetBufferCommObj(arg)
    /\ UNCHANGED <<pcImport, BUFFER_COMM_SELF, BUFFER_COMM_WORLD>>

\* The module state before its last two statements run.
RegistryAtImport ==
    /\ buffer_comm_registry = <<>>
    /\ wraps = <<>>
    /\ pcImport = "start"
    /\ BUFFER_COMM_SELF = None
    /\ BUFFER_COMM_WORLD = None
    /\ call = [arg |-> None, exc |-> "nocall", ret |-> None, fresh |-> FALSE]
    /\ firstRet = <<>>

\* No rank is inside a BufferComm method.
GroupIdle ==
    /\ op = "none"
    /\ root = 0
    /\ eager = FALSE
    /\ junk = 0
    /\ objArg = <<>>
    /\ obj = <<>>
    /\ pc = <<>>
    /\ posts = <<>>
    /\ completed = <<>>
    /\ shapes = <<>>
    /\ buff = <<>>
    /\ ret = <<>>
    /\ exc = <<>>
    /\ msg = <<>>

\* No attribute of a handle or wrapper is touched.
AttrIdle ==
    /\ commDict = <<>>
    /\ selfDict = <<>>
    /\ access = [via |-> "none", kind |-> "none", name |-> "", exc |-> "none"]

\* No method of a dummyMPI.Comm is called.
EmuIdle ==
    /\ heap = <<>>
    /\ emuCall = [meth |-> "none", arg |-> 0, recv |-> 0, exc |-> "none",
                  ret |-> 0]

InitRegistry == RegistryAtImport /\ GroupIdle /\ AttrIdle /\ EmuIdle

NextRegistry ==
    \/ ImportSelf /\ UNCHANGED <<groupVars, attrVars, emuVars>>
    \/ ImportWorld /\ UNCHANGED <<groupVars, attrVars, emuVars>>
    \/ CallGetBufferCommObj /\ UNCHANGED <<groupVars, attrVars, emuVars>>

SpecRegistry == InitRegistry /\ [][NextRegistry]_vars

(***************************************************************************)
(* The registry's properties.                                              *)
(***************************************************************************)
\* The comm a call works on: "if comm is None: comm = MPI.COMM_WORLD".
CommOfArg(arg) == IF arg = None THEN COMM_WORLD ELSE arg

WrappersOf(h) == {w \in DOMAIN wraps : wraps[w] = h}

\* C1: every get_BufferComm_obj(h) on a process-group handle h returns the
\* instance the first call on h returned, whatever calls came in between, and
\* no second BufferComm is ever constructed for h.
C1_IdempotentWrapping ==
    /\ (call.exc = "none" /\ CommOfArg(call.arg) \in Handles)
          => call.ret = firstRet[CommOfArg(call.arg)]
    /\ \A h \in Handles : Cardinality(WrappersOf(h)) <= 1

\* A repeated call on a caller's handle, made once every handle is wrapped.
C1_Witness ==
    /\ call.exc = "none"
    /\ ~call.fresh
    /\ call.arg \in Handles \ {COMM_WORLD, COMM_SELF}
    /\ \A h \in Handles : WrappersOf(h) # {}

\* C2: a call whose argument is a BufferComm stored in the registry returns
\* that very instance and changes neither the registry nor the set of
\* wrappers.
C2_NoDoubleWrap ==
    [][(call'.exc # "nocall" /\ call'.arg \in Range(buffer_comm_registry))
         => /\ call'.ret = call'.arg
            /\ call'.exc = "none"
            /\ buffer_comm_registry' = buffer_comm_registry
            /\ wraps' = wraps]_vars

\* A call that was handed a caller-created handle's wrapper.
C2_Witness ==
    /\ call.exc = "none"
    /\ call.arg \in DOMAIN wraps
    /\ wraps[call.arg] \in Handles \ {COMM_WORLD, COMM_SELF}
    /\ call.ret = call.arg

\* C3: the registry holds at most one BufferComm per handle, every value wraps
\* the handle whose hex(id()) is its key, and distinct keys hold distinct
\* wrappers of distinct handles.
C3_OneWrapperPerHandle ==
    /\ \A k \in DOMAIN buffer_comm_registry :
          /\ buffer_comm_registry[k] \in DOMAIN wraps
          /\ wraps[buffer_comm_registry[k]] \in Handles
          /\ k = Hex(wraps[buffer_comm_registry[k]])
    /\ \A k1, k2 \in DOMAIN buffer_comm_registry :
          k1 # k2 =>
            /\ buffer_comm_registry[k1] # buffer_comm_registry[k2]
            /\ wraps[buffer_comm_registry[k1]] # wraps[buffer_comm_registry[k2]]
    /\ \A h \in Handles :
          Cardinality({w \in Range(buffer_comm_registry) : wraps[w] = h}) <= 1

\* Every handle of the process has been wrapped.
C3_Witness ==
    /\ Cardinality(DOMAIN buffer_comm_registry) = Cardinality(Handles)
    /\ \A h \in Handles : Hex(h) \in DOMAIN buffer_comm_registry

\* C11: a get_BufferComm_obj call whose argument is neither None nor an
\* intra-communicator raises TypeError, and the registry (and the set of
\* wrappers) is after the call what it was before it.
C11_InvalidHandleRejected ==
    [][call'.arg \in Others
         => /\ call'.exc = "TypeError"
            /\ call'.ret = None
            /\ buffer_comm_registry' = buffer_comm_registry
            /\ wraps' = wraps]_vars

\* A rejected call made when the registry already holds a caller's handle
\* besides the two defaults.
C11_Witness ==
    /\ call.exc = "TypeError"
    /\ call.arg \in Others
    /\ Cardinality(DOMAIN buffer_comm_registry) > 2

\* C12: once the module is imported, get_BufferComm_obj(None) and
\* get_BufferComm_obj(COMM_WORLD) both return BUFFER_COMM_WORLD, which is
\* another instance than BUFFER_COMM_SELF; and when the import has just
\* finished the registry holds these two wrappers and nothing else.
C12_DefaultHandle ==
    pcImport = "ready" =>
        /\ BUFFER_COMM_WORLD \in DOMAIN wraps
        /\ BUFFER_COMM_SELF \in DOMAIN wraps
        /\ BUFFER_COMM_WORLD # BUFFER_COMM_SELF
        /\ wraps[BUFFER_COMM_WORLD] = COMM_WORLD
        /\ wraps[BUFFER_COMM_SELF] = COMM_SELF
        /\ call.arg \in {None, COMM_WORLD} =>
              call.exc = "none" /\ call.ret = BUFFER_COMM_WORLD
        /\ (call.arg = COMM_WORLD /\ call.fresh) =>
              /\ Range(buffer_comm_registry) =
                    {BUFFER_COMM_SELF, BUFFER_COMM_WORLD}
              /\ Cardinality(DOMAIN buffer_comm_registry) = 2

\* get_BufferComm_obj(None) has returned after a caller's handle was wrapped.
C12_Witness ==
    /\ pcImport = "ready"
    /\ call.arg = None
    /\ call.ret = BUFFER_COMM_WORLD
    /\ Cardinality(DOMAIN buffer_comm_registry) > 2

\* The handles wrapped so far.
EverWrapped == {wraps[w] : w \in DOMAIN wraps}

\* C15: a key the registry holds stays in it with the same wrapper in every
\* later state, and the registry has as many entries as there are handles
\* that were ever wrapped.
C15_RegistryGrowsOnly ==
    /\ [](Cardinality(DOMAIN buffer_comm_registry) = Cardinality(EverWrapped))
    /\ [][\A k \in DOMAIN buffer_comm_registry :
             /\ k \in DOMAIN buffer_comm_registry'
             /\ buffer_comm_registry'[k] = buffer_comm_registry[k]]_vars

\* Calls of every kind have been made after the registry grew past the two
\* defaults: the latest one was rejected.
C15_Witness ==
    /\ Cardinality(DOMAIN buffer_comm_registry) = Cardinality(Handles)
    /\ call.exc = "TypeError"

(***************************************************************************)
(* Attribute access on a BufferComm and on the handle it wraps.  The       *)
(* handle is a dummyMPI.Intracomm: its class defines the property name     *)
(* (kept in _name, settable to a str only) and the methods; the rest lives *)
(* in its instance dict.  A value is a str ("a", the initial name), another *)
(* piece of data ("7") or a method object.                                 *)
(***************************************************************************)
Methods == {"bcast", "gather"}
Names == {"name", "tag"} \cup Methods
InitialName == "dummyMPI_COMM_WORLD"
StrValues == {InitialName, "a"}
CommMethod == [n \in Methods |-> IF n = "bcast" THEN "comm.bcast"
                                 ELSE "comm.gather"]
OwnMethod == [n \in Methods |-> IF n = "bcast" THEN "BufferComm.bcast"
                                ELSE "BufferComm.gather"]

\* method_types = (BuiltinMethodType, MethodType)
Operations == Range(CommMethod) \cup Range(OwnMethod) \cup {"<method>"}
WrittenValues == {"a", "7", "<method>"}

Got(v) == [exc |-> "none", val |-> v]
Failed(e) == [exc |-> e, val |-> ""]

Without(d, n) == [k \in DOMAIN d \ {n} |-> d[k]]

\* dir(comm)
Dir(d) == {"name"} \cup Methods \cup DOMAIN d

\* getattr(comm, n)
CommGet(d, n) ==
    IF n = "name"
    THEN (IF "_name" \in DOMAIN d THEN Got(d["_name"])
          ELSE Failed("AttributeError"))
    ELSE IF n \in DOMAIN d THEN Got(d[n])
    ELSE IF n \in Methods THEN Got(CommMethod[n])
    ELSE Failed("AttributeError")

\* A setter that takes whatever it is given.
CommSetUnchecked(d, n, v) ==
    [exc |-> "none",
     dict |-> ((IF n = "name" THEN "_name" ELSE n) :> v) @@ d]

\* setattr(comm, n, v): the dict afterwards and the exception raised.
CommSet(d, n, v) ==
    IF n = "name"
    THEN (IF v \in StrValues THEN [exc |-> "none", dict |-> ("_name" :> v) @@ d]
          ELSE [exc |-> "TypeError", dict |-> d])
    ELSE [exc |-> "none", dict |-> (n :> v) @@ d]

\* delattr(comm, n)
CommDel(d, n) ==
    IF n # "name" /\ n \in DOMAIN d
    THEN [exc |-> "none", dict |-> Without(d, n)]
    ELSE [exc |-> "AttributeError", dict |-> d]

\* isinstance(getattr(comm, name), method_types)
NothingIsOperation(v) == FALSE
IsOperation(v) == v \in Operations

\* "name in dir(comm) and not isinstance(getattr(comm, name), method_types)"
\* when getattr raises nothing.
Forwards(d, n) ==
    n \in Dir(d) /\ CommGet(d, n).exc = "none" /\ ~IsOperation(CommGet(d, n).val)

\* The condition itself raises: getattr(comm, name) fails.
ConditionFails(d, n) == n \in Dir(d) /\ CommGet(d, n).exc # "none"

\* super().__getattribute__(n) on the wrapper: the class's property (which
\* reads self._name, again through __getattribute__), then the instance
\* dict, then the class's methods.
OwnGet(d, own, n) ==
    IF n = "name"
    THEN (IF Forwards(d, "_name") THEN CommGet(d, "_name")
          ELSE IF "_name" \in DOMAIN own THEN Got(own["_name"])
          ELSE Failed("AttributeError"))
    ELSE IF n \in DOMAIN own THEN Got(own[n])
    ELSE IF n \in Methods THEN Got(OwnMethod[n])
    ELSE Failed("AttributeError")

\* BufferComm.__getattribute__(n)
WrapperGet(d, own, n) ==
    IF ConditionFails(d, n) THEN Failed(CommGet(d, n).exc)
    ELSE IF Forwards(d, n) THEN CommGet(d, n)
    ELSE OwnGet(d, own, n)

\* An attribute write or deletion: who did it, what became of the two dicts.
Accessed(via, kind, n, e, d, own) ==
    /\ access' = [via |-> via, kind |-> kind, name |-> n, exc |-> e]
    /\ commDict' = d
    /\ selfDict' = own

\* BufferComm.__setattr__(n, v); an unforwarded "name" goes to the class's
\* property setter, which stores a str in self._name.
WrapperSetattr ==
    \E n \in Names, v \in WrittenValues :
        IF ConditionFails(commDict, n)
        THEN Accessed("wrapper", "set", n, "AttributeError", commDict, selfDict)
        ELSE IF Forwards(commDict, n)
        THEN Accessed("wrapper", "set", n, CommSet(commDict, n, v).exc,
                      CommSet(commDict, n, v).dict, selfDict)
        ELSE IF n = "name" /\ v \notin StrValues
        THEN Accessed("wrapper", "set", n, "TypeError", commDict, selfDict)
        ELSE IF n = "name" /\ Forwards(commDict, "_name")
        THEN Accessed("wrapper", "set", n, "none",
                      ("_name" :> v) @@ commDict, selfDict)
        ELSE IF n = "name"
        THEN Accessed("wrapper", "set", n, "none", commDict,
                      ("_name" :> v) @@ selfDict)
        ELSE Accessed("wrapper", "set", n, "none", commDict,
                      (n :> v) @@ selfDict)

\* BufferComm.__delattr__(n)
WrapperDelattr ==
    \E n \in Names :
        IF ConditionFails(commDict, n)
        THEN Accessed("wrapper", "del", n, "AttributeError", commDict, selfDict)
        ELSE IF Forwards(commDict, n)
        THEN Accessed("wrapper", "del", n, CommDel(commDict, n).exc,
                      CommDel(commDict, n).dict, selfDict)
        ELSE IF n \in DOMAIN selfDict
        THEN Accessed("wrapper", "del", n, "none", commDict,
                      Without(selfDict, n))
        ELSE Accessed("wrapper", "del", n, "AttributeError", commDict, selfDict)

\* setattr(comm, n, v), made on the handle itself.
HandleSetattr ==
    \E n \in Names, v \in WrittenValues :
        Accessed("handle", "set", n, CommSet(commDict, n, v).exc,
                 CommSet(commDict, n, v).dict, selfDict)

\* delattr(comm, n), made on the handle itself.
HandleDelattr ==
    \E n \in Names :
        Accessed("handle", "del", n, CommDel(commDict, n).exc,
                 CommDel(commDict, n).dict, selfDict)

InitAttr ==
    /\ RegistryAtImport
    /\ GroupIdle
    /\ EmuIdle
    /\ commDict = ("_name" :> InitialName)
    /\ selfDict = <<>>
    /\ access = [via |-> "none", kind |-> "none", name |-> "", exc |-> "none"]

NextAttr ==
    \/ WrapperSetattr /\ UNCHANGED <<regVars, groupVars, emuVars>>
    \/ WrapperDelattr /\ UNCHANGED <<regVars, groupVars, emuVars>>
    \/ HandleSetattr /\ UNCHANGED <<regVars, groupVars, emuVars>>
    \/ HandleDelattr /\ UNCHANGED <<regVars, groupVars, emuVars>>

SpecAttr == InitAttr /\ [][NextAttr]_vars

\* The handle defines n with a value that is no operation.
DefinesData(n) ==
    /\ n \in Dir(commDict)
    /\ CommGet(commDict, n).exc = "none"
    /\ CommGet(commDict, n).val \notin Operations

\* A member the handle defines with data reads the same through the wrapper
\* and through the handle.
ReadsAgree ==
    \A n \in Names :
        DefinesData(n) => WrapperGet(commDict, selfDict, n) = CommGet(commDict, n)

\* A write or deletion made through the wrapper on such a member does to the
\* handle what the same operation on the handle does, with the same
\* exception, and leaves the wrapper's own attributes alone.
WritesForwarded ==
    (access'.via = "wrapper" /\ DefinesData(access'.name)) =>
        /\ selfDict' = selfDict
        /\ \/ /\ access'.kind = "del"
              /\ commDict' = CommDel(commDict, access'.name).dict
              /\ access'.exc = CommDel(commDict, access'.name).exc
           \/ /\ access'.kind = "set"
              /\ \E v \in WrittenValues :
                    /\ commDict' = CommSet(commDict, access'.name, v).dict
                    /\ access'.exc = CommSet(commDict, access'.name, v).exc

\* C14 as stated: members the handle defines with data are read, written and
\* deleted on the handle, so both views agree after any writes on either
\* side; and bcast and gather read through the wrapper are always the
\* wrapper's own, never the handle's.
C14_AttributeDelegation ==
    /\ []ReadsAgree
    /\ [][WritesForwarded]_vars
    /\ [](\A n \in Methods :
            WrapperGet(commDict, selfDict, n) = OwnGet(commDict, selfDict, n))

\* C14 amended: the same, bcast and gather being the wrapper's own for as
\* long as the handle's bcast and gather are operations.
C14_DelegationUnlessData ==
    /\ []ReadsAgree
    /\ [][WritesForwarded]_vars
    /\ [](\A n \in Methods :
            CommGet(commDict, n).val \in Operations =>
                WrapperGet(commDict, selfDict, n) = OwnGet(commDict, selfDict, n))

\* tag, set on the handle, was then written through the wrapper; the name
\* was changed; the wrapper holds an attribute of its own under "gather".
C14_Witness ==
    /\ access.via = "wrapper"
    /\ access.kind = "set"
    /\ access.name = "tag"
    /\ access.exc = "none"
    /\ "tag" \in DOMAIN commDict
    /\ "tag" \notin DOMAIN selfDict
    /\ commDict["_name"] = "a"
    /\ "gather" \in DOMAIN selfDict

(***************************************************************************)
(* dummyMPI.Comm: the methods of the one-process communicator, applied to  *)
(* Python objects.  An object lives at an address; a list or tuple holds   *)
(* the addresses of its items, an array its elements.                      *)
(***************************************************************************)
MaxHeap == 8             \* addresses the heap has room for

Object(kind, val) == [kind |-> kind, val |-> val]

\* The objects a caller holds: 5, None, two arrays of two elements, the list
\* [5, array], the tuple (array, 5) and the empty list.
NoneAddr == 2
CallerObjects ==
    << Object("int", <<5>>), Object("None", <<>>),
       Object("ndarray", <<1, 2>>), Object("ndarray", <<8, 9>>),
       Object("list", <<1, 3>>), Object("tuple", <<4, 1>>),
       Object("list", <<>>) >>

Addrs(h) == 1..Len(h)

IsSequence(h, a) == h[a].kind \in {"list", "tuple"}

\* np.isscalar(sendobj)
IsScalar(h, a) == h[a].kind = "int"

\* The outcome of a call: the exception, the returned object, the heap.
Returned(h, a) == [exc |-> "none", ret |-> a, heap |-> h]
Raised(h, e) == [exc |-> e, ret |-> NoneAddr, heap |-> h]

\* A copy that is the object itself.
SameObject(h, a) == Returned(h, a)

RECURSIVE DeepCopy(_, _), CopyItems(_, _)
\* copy.deepcopy(x): ints and None are returned as they are, an array and a
\* list are built anew, a tuple is built anew unless no item changed.
DeepCopy(h, a) ==
    IF h[a].kind \in {"int", "None"} THEN Returned(h, a)
    ELSE IF h[a].kind = "ndarray"
    THEN Returned(Append(h, h[a]), Len(h) + 1)
    ELSE LET c == CopyItems(h, h[a].val) IN
         IF h[a].kind = "tuple" /\ c.items = h[a].val THEN Returned(h, a)
         ELSE Returned(Append(c.heap, Object(h[a].kind, c.items)),
                       Len(c.heap) + 1)

CopyItems(h, items) ==
    IF Len(items) = 0 THEN [heap |-> h, items |-> <<>>]
    ELSE LET first == DeepCopy(h, Head(items))
             rest == CopyItems(first.heap, Tail(items)) IN
         [heap |-> rest.heap, items |-> <<first.ret>> \o rest.items]

RECURSIVE DeepEq(_, _, _)
\* a == b for the objects at two addresses.
DeepEq(h, a, b) ==
    /\ h[a].kind = h[b].kind
    /\ Len(h[a].val) = Len(h[b].val)
    /\ IF IsSequence(h, a)
       THEN \A i \in 1..Len(h[a].val) : DeepEq(h, h[a].val[i], h[b].val[i])
       ELSE h[a].val = h[b].val

\* Comm._get_buffer(buff): "buff[0]" of a list or tuple, else buff.
GetBuffer(h, a) ==
    IF ~IsSequence(h, a) THEN Returned(h, a)
    ELSE IF Len(h[a].val) = 0 THEN Raised(h, "IndexError")
    ELSE Returned(h, h[a].val[1])

\* "recvbuf[:] = sendbuf" for an array recvbuf: the elements of an array of
\* the same length, or one element or scalar repeated.
AssignAll(h, recvbuf, sendbuf) ==
    LET n == Len(h[recvbuf].val) IN
    IF h[recvbuf].kind # "ndarray" THEN Raised(h, "TypeError")
    ELSE IF h[sendbuf].kind = "None" \/ IsSequence(h, sendbuf)
    THEN Raised(h, "TypeError")
    ELSE IF Len(h[sendbuf].val) = n
    THEN Returned([h EXCEPT ![recvbuf].val = h[sendbuf].val], recvbuf)
    ELSE IF Len(h[sendbuf].val) = 1
    THEN Returned([h EXCEPT ![recvbuf].val = [i \in 1..n |-> h[sendbuf].val[1]]],
                  recvbuf)
    ELSE Raised(h, "ValueError")

\* Comm._scatter_gather(sendbuf, recvbuf=None)
ScatterGather(h, sendbuf, recvbuf) ==
    LET s == GetBuffer(h, sendbuf)
        r == GetBuffer(h, recvbuf) IN
    IF s.exc # "none" THEN s
    ELSE IF r.exc # "none" THEN r
    ELSE IF r.ret = NoneAddr THEN DeepCopy(h, s.ret)
    ELSE AssignAll(h, r.ret, s.ret)

\* Comm.gather(sendobj): [sendobj]
Gather(h, sendobj) == Returned(Append(h, Object("list", <<sendobj>>)), Len(h) + 1)

\* "sendobj[0]"
LastItem(items) == items[Len(items)]
FirstItem(items) == items[1]

\* Comm.scatter(sendobj): sendobj[0]; an array's element is a new scalar.
Scatter(h, sendobj) ==
    IF h[sendobj].kind \in {"int", "None"} THEN Raised(h, "TypeError")
    ELSE IF Len(h[sendobj].val) = 0 THEN Raised(h, "IndexError")
    ELSE IF IsSequence(h, sendobj) THEN Returned(h, FirstItem(h[sendobj].val))
    ELSE Returned(Append(h, Object("int", <<FirstItem(h[sendobj].val)>>)),
                  Len(h) + 1)

\* Comm.reduce(sendobj)
Reduce(h, sendobj) ==
    IF IsScalar(h, sendobj) THEN Returned(h, sendobj)
    ELSE ScatterGather(h, sendobj, NoneAddr)

\* The methods that return their argument: Bcast, bcast, Sendrecv, sendrecv.
IdentityMethods == {"Bcast", "bcast", "Sendrecv", "sendrecv"}
\* What a call of meth(arg) does; allgather is gather, allreduce is reduce.
Outcome(meth, h, a) ==
    IF meth \in IdentityMethods THEN Returned(h, a)
    ELSE IF meth \in {"gather", "allgather"} THEN Gather(h, a)
    ELSE IF meth = "scatter" THEN Scatter(h, a)
    ELSE Reduce(h, a)

\* One call of a method that takes an object.
EmuCall(meth) ==
    \E a \in Addrs(heap) :
        LET o == Outcome(meth, heap, a) IN
        /\ Len(o.heap) <= MaxHeap
        /\ heap' = o.heap
        /\ emuCall' = [meth |-> meth, arg |-> a, recv |-> NoneAddr,
                       exc |-> o.exc, ret |-> o.ret]

InitEmu ==
    /\ RegistryAtImport
    /\ GroupIdle
    /\ AttrIdle
    /\ heap = CallerObjects
    /\ emuCall = [meth |-> "none", arg |-> NoneAddr, recv |-> NoneAddr,
                  exc |-> "none", ret |-> NoneAddr]

NextEmu ==
    \/ EmuCall("bcast") /\ UNCHANGED <<regVars, groupVars, attrVars>>
    \/ EmuCall("Bcast") /\ UNCHANGED <<regVars, groupVars, attrVars>>
    \/ EmuCall("sendrecv") /\ UNCHANGED <<regVars, groupVars, attrVars>>
    \/ EmuCall("Sendrecv") /\ UNCHANGED <<regVars, groupVars, attrVars>>
    \/ EmuCall("gather") /\ UNCHANGED <<regVars, groupVars, attrVars>>
    \/ EmuCall("allgather") /\ UNCHANGED <<regVars, groupVars, attrVars>>
    \/ EmuCall("scatter") /\ UNCHANGED <<regVars, groupVars, attrVars>>
    \/ EmuCall("reduce") /\ UNCHANGED <<regVars, groupVars, attrVars>>
    \/ EmuCall("allreduce") /\ UNCHANGED <<regVars, groupVars, attrVars>>

SpecEmu == InitEmu /\ [][NextEmu]_vars

\* C13: on a dummyMPI.Comm, bcast, Bcast, sendrecv and Sendrecv return the
\* very object they were given, gather returns a new one-element list that
\* holds it, scatter returns the first item of a non-empty list or tuple; and
\* no call alters an object that existed before it.
C13_EmulationEquivalence ==
    /\ [](emuCall.meth \in IdentityMethods =>
            emuCall.exc = "none" /\ emuCall.ret = emuCall.arg)
    /\ [](emuCall.meth = "gather" =>
            /\ emuCall.exc = "none"
            /\ heap[emuCall.ret] = Object("list", <<emuCall.arg>>))
    /\ []((/\ emuCall.meth = "scatter"
           /\ IsSequence(heap, emuCall.arg)
           /\ Len(heap[emuCall.arg].val) > 0) =>
            /\ emuCall.exc = "none"
            /\ emuCall.ret = heap[emuCall.arg].val[1])
    /\ [][\A a \in Addrs(heap) : heap'[a] = heap[a]]_vars

\* scatter has returned the array that heads a tuple, after a gather had
\* made a new list.
C13_Witness ==
    /\ emuCall.meth = "scatter"
    /\ emuCall.exc = "none"
    /\ heap[emuCall.arg].kind = "tuple"
    /\ heap[emuCall.ret].kind = "ndarray"
    /\ Len(heap) > Len(CallerObjects)
    /\ heap[Len(heap)].kind = "list"

\* C20: on a dummyMPI.Comm, reduce and allreduce return a scalar argument
\* itself, and for any other argument (an array, a list, a tuple) return
\* without error an object equal to the whole argument.
C20_EmulationReduce ==
    emuCall.meth \in {"reduce", "allreduce"} =>
        /\ emuCall.exc = "none"
        /\ IF IsScalar(heap, emuCall.arg) THEN emuCall.ret = emuCall.arg
           ELSE DeepEq(heap, emuCall.ret, emuCall.arg)

(***************************************************************************)
(* The state of a dummyMPI.Intracomm: _name, _rank and _size in its        *)
(* instance dict, as the constructors leave them, under calls of its       *)
(* communication methods and assignments to its name.                      *)
(***************************************************************************)
\* "dummyMPI_%s" % name, for a name that does not start with "dummyMPI_".
Prefixed(name) == IF name = "a" THEN "dummyMPI_a" ELSE name

\* The values that are instances of str.
Strs == StrValues \cup {Prefixed(v) : v \in StrValues}

\* Intracomm(name): the name setter, then Comm.__init__.
NewIntracomm(name) ==
    LET set == CommSet(<<>>, "name", name) IN
    IF set.exc # "none" THEN set
    ELSE [exc |-> "none",
          dict |-> ("_name" :> Prefixed(set.dict["_name"]))
                      @@ ("_rank" :> 0) @@ ("_size" :> 1)]

\* Comm.rank, Comm.size
Rank(d) == d["_rank"]
Size(d) == d["_size"]

\* "comm.name = v"
NameAssign(v) ==
    Accessed("handle", "set", "name", CommSet(commDict, "name", v).exc,
             CommSet(commDict, "name", v).dict, selfDict)

ObjectMethods == IdentityMethods \cup
    {"gather", "allgather", "scatter", "reduce", "allreduce"}

InitHandle ==
    /\ RegistryAtImport
    /\ GroupIdle
    /\ \E name \in StrValues : commDict = NewIntracomm(name).dict
    /\ selfDict = <<>>
    /\ access = [via |-> "none", kind |-> "none", name |-> "", exc |-> "none"]
    /\ heap = CallerObjects
    /\ emuCall = [meth |-> "none", arg |-> NoneAddr, recv |-> NoneAddr,
                  exc |-> "none", ret |-> NoneAddr]

NextHandle ==
    \/ (\E v \in StrValues \cup WrittenValues : NameAssign(v))
          /\ UNCHANGED <<regVars, groupVars, emuVars>>
    \/ (\E meth \in ObjectMethods : EmuCall(meth))
          /\ UNCHANGED <<regVars, groupVars, attrVars>>

SpecHandle == InitHandle /\ [][NextHandle]_vars

\* C21: whatever methods of a dummyMPI.Intracomm are called and whatever is
\* assigned to its name, its rank is 0, its size is 1 and its name is a str;
\* assigning a value that is not a str raises TypeError and leaves the name
\* as it was.
C21_EmulationState ==
    /\ [](/\ Rank(commDict) = 0
          /\ Size(commDict) = 1
          /\ CommGet(commDict, "name").exc = "none"
          /\ CommGet(commDict, "name").val \in Strs)
    /\ [][\A v \in WrittenValues \ Strs :
             NameAssign(v) =>
                 /\ access'.exc = "TypeError"
                 /\ CommGet(commDict', "name") = CommGet(commDict, "name")]_vars

\* The name was set to "a", a method was called, and an assignment of
\* something else than a str has just been refused.
C21_Witness ==
    /\ access.exc = "TypeError"
    /\ commDict["_name"] = "a"
    /\ emuCall.meth = "gather"
    /\ emuCall.exc = "none"

(***************************************************************************)
(* The methods of dummyMPI.Comm that take a send buffer and a receive      *)
(* buffer, and a caller that writes into the array a call returned.        *)
(***************************************************************************)
\* Gather, Gatherv, Reduce, Scatter and Scatterv are _scatter_gather;
\* Allgather is Gather, Allgatherv is Gatherv, Allreduce is Reduce.
TypedMethods == {"Gather", "Gatherv", "Reduce", "Scatter", "Scatterv",
                 "Allgather", "Allgatherv", "Allreduce"}

\* One call meth(sendbuf, recvbuf); recvbuf may be None.  A caller keeps to
\* the method of its first call.
TypedCall(meth) ==
    \E s \in Addrs(heap), r \in Addrs(heap) :
        LET o == ScatterGather(heap, s, r) IN
        /\ emuCall.meth \in {"none", meth}
        /\ emuCall.exc # "written"
        /\ Len(o.heap) <= MaxHeap
        /\ heap' = o.heap
        /\ emuCall' = [meth |-> meth, arg |-> s, recv |-> r,
                       exc |-> o.exc, ret |-> o.ret]

\* "out[0] = 0" on the array the last call returned; the caller makes no
\* call after it.
MutateReturned ==
    /\ emuCall.meth \in TypedMethods
    /\ emuCall.exc = "none"
    /\ heap[emuCall.ret].kind = "ndarray"
    /\ heap' = [heap EXCEPT ![emuCall.ret].val[1] = 0]
    /\ emuCall' = [emuCall EXCEPT !.exc = "written"]

NextEmuBuffer ==
    \/ (\E meth \in TypedMethods : TypedCall(meth))
          /\ UNCHANGED <<regVars, groupVars, attrVars>>
    \/ MutateReturned /\ UNCHANGED <<regVars, groupVars, attrVars>>

SpecEmuBuffer == InitEmu /\ [][NextEmuBuffer]_vars

\* The array a buffer argument stands for: the argument, or its first item.
BufferOf(h, a) == GetBuffer(h, a).ret

\* The call is within the methods' domain: the send buffer is an array, the
\* receive buffer is None or an array of the same length.
Conforming(h, s, r) ==
    /\ GetBuffer(h, s).exc = "none"
    /\ GetBuffer(h, r).exc = "none"
    /\ h[BufferOf(h, s)].kind = "ndarray"
    /\ \/ BufferOf(h, r) = NoneAddr
       \/ /\ h[BufferOf(h, r)].kind = "ndarray"
          /\ Len(h[BufferOf(h, r)].val) = Len(h[BufferOf(h, s)].val)

\* C22: a typed method of dummyMPI.Comm, given an array to send and an
\* array of that length to receive into, copies the elements into the
\* receive array and returns that array; given None to receive into, it
\* returns a new array equal to the send array.  Either way the send array
\* and every object but the receive array are as before, and writing into a
\* returned copy afterwards leaves the send array as it was.
C22_TypedCopySemantics ==
    /\ [][(emuCall' # emuCall /\ emuCall'.exc # "written"
              /\ emuCall'.meth \in TypedMethods
              /\ Conforming(heap, emuCall'.arg, emuCall'.recv)) =>
            LET sb == BufferOf(heap, emuCall'.arg)
                rb == BufferOf(heap, emuCall'.recv) IN
            /\ emuCall'.exc = "none"
            /\ heap'[sb] = heap[sb]
            /\ \A a \in Addrs(heap) \ {rb} : heap'[a] = heap[a]
            /\ IF rb = NoneAddr
               THEN /\ emuCall'.ret \notin Addrs(heap)
                    /\ heap'[emuCall'.ret] = heap[sb]
               ELSE /\ emuCall'.ret = rb
                    /\ heap'[rb].val = heap[sb].val]_vars
    /\ [][(emuCall'.exc = "written" /\ emuCall.exc = "none"
              /\ Conforming(heap, emuCall.arg, emuCall.recv)
              /\ BufferOf(heap, emuCall.recv) = NoneAddr) =>
            heap'[BufferOf(heap, emuCall.arg)]
                = heap[BufferOf(heap, emuCall.arg)]]_vars

\* Gatherv(a, None) has returned a copy of the array a, the caller has
\* written into the copy, and a still holds its elements.
C22_Witness ==
    /\ emuCall.meth = "Gatherv"
    /\ emuCall.exc = "written"
    /\ emuCall.arg = 3
    /\ emuCall.recv = NoneAddr
    /\ emuCall.ret > Len(CallerObjects)
    /\ heap[emuCall.ret].val = <<0, 2>>
    /\ heap[3].val = <<1, 2>>

(***************************************************************************)
(* Payloads.  A byte count is [gib, rem], standing for gib * 2^30 + rem,   *)
(* so that counts past 2^31 - 1 can be written down.                       *)
(***************************************************************************)
NumRanks == 3            \* size of the process group
MaxDim == 2              \* largest extent of an array axis

Ranks == 0..(NumRanks - 1)

Bytes(g, m) == [gib |-> g, rem |-> m]

BytesGT(a, b) == a.gib > b.gib \/ (a.gib = b.gib /\ a.rem > b.rem)

BytesAdd(a, b) ==
    IF a.rem + b.rem >= 1073741824
    THEN Bytes(a.gib + b.gib + 1, a.rem + b.rem - 1073741824)
    ELSE Bytes(a.gib + b.gib, a.rem + b.rem)

\* 2**31 - 1, the largest count the transport's generic path can carry.
MaxPickle == Bytes(1, 1073741823)

RECURSIVE Prod(_)
\* np.product(shape)
Prod(shape) ==
    IF Len(shape) = 0 THEN 1 ELSE Head(shape) * Prod(Tail(shape))

\* np.all(obj.shape)
AllNonzero(shape) == \A i \in 1..Len(shape) : shape[i] # 0

\* A NumPy array: its shape, its dtype and its elements in C order.
NdArray(shape, dtype, data) ==
    [kind |-> "ndarray", cls |-> "ndarray", shape |-> shape, dtype |-> dtype,
     data |-> data, sizeof |-> Bytes(0, 96), pickled |-> Bytes(0, 160)]

\* Any other object: its class name, its value, obj.__sizeof__() and the
\* length of its pickle.
Generic(cls, data, sizeof, pickled) ==
    [kind |-> "generic", cls |-> cls, shape |-> <<>>, dtype |-> "",
     data |-> data, sizeof |-> sizeof, pickled |-> pickled]

\* isinstance(obj, np.ndarray)
IsNdArray(o) == o.kind = "ndarray"

\* obj.shape of an array, as the tuple it is.
ShapeTuple(shape) == Generic("tuple", shape, Bytes(0, 56), Bytes(0, 24))

DTypes == {"int64", "float64"}

Shapes == {<<a, b>> : a \in 0..MaxDim, b \in 0..MaxDim}

\* The elements rank r puts in its array: all distinct, within and across ranks.
Elem(r, i) == 100 * (r + 1) + i

ArrayOf(r, shape, dtype) ==
    NdArray(shape, dtype, [i \in 1..Prod(shape) |-> Elem(r, i)])

\* np.empty(shape, dtype): every cell holds whatever was in memory.
Empty(shape, dtype) ==
    NdArray(shape, dtype, [i \in 1..Prod(shape) |-> junk])

\* obj.ravel(): the same elements as a 1-D array.
Ravel(o) == NdArray(<<Len(o.data)>>, o.dtype, o.data)

\* The generic objects a caller may pass: a small dict, a tuple of two ints,
\* a bytes object whose pickle has exactly 2^31 - 1 bytes, a bytes object of
\* 1 GiB, one of 3 GiB, and a list of three 1 GiB bytes objects (its
\* __sizeof__() counts only the list's own three pointers).
SmallDict == Generic("dict", <<7>>, Bytes(0, 232), Bytes(0, 30))
PairTuple == Generic("tuple", <<2, 1>>, Bytes(0, 56), Bytes(0, 24))
LimitBytes == Generic("bytes", <<8>>, Bytes(2, 15), Bytes(1, 1073741823))
GiBytes == Generic("bytes", <<9>>, Bytes(1, 33), Bytes(1, 15))
HugeBytes == Generic("bytes", <<10>>, Bytes(3, 33), Bytes(3, 15))
HugeList == Generic("list", <<11>>, Bytes(0, 80), Bytes(3, 60))

(***************************************************************************)
(* The transport: an MPI intra-communicator.  The k-th collective a rank   *)
(* enters matches the k-th collective of every other rank.  A receiver     *)
(* waits for what it receives; a sender returns at once on an eager        *)
(* transport and otherwise when the receiver has taken the message.        *)
(***************************************************************************)
Message(name, tag, pay) == [op |-> name, tag |-> tag, pay |-> pay]

Entered(r, k) == Len(posts[r]) >= k

\* The generic path pickles what it sends; the pickle's length must fit a
\* 32-bit int, else the send raises OverflowError before anything is sent.
PickleOverflows(pay) == BytesGT(pay.pickled, MaxPickle)

\* Rank r enters its next collective.
Enter(r, m) == posts' = [posts EXCEPT ![r] = Append(@, m)]

\* The root's k-th broadcast is complete.
BcastSent(k) == eager \/ \A r \in Ranks : Entered(r, k)

\* A non-root's k-th broadcast can deliver.
BcastArrived(k) == Entered(root, k)

\* What the root broadcast in its k-th collective.
BcastMessage(k) == posts[root][k]

\* Bcast(buf) on a receiver: the sent elements land in buf's memory.
RecvInto(buf, sent) ==
    [buf EXCEPT !.data = [i \in 1..Len(buf.data) |->
                            IF i <= Len(sent.data) THEN sent.data[i]
                            ELSE buf.data[i]]]

(***************************************************************************)
(* BufferComm.bcast(obj, root)                                             *)
(***************************************************************************)
NoValue == [tag |-> "unset", val |-> <<>>]
NoneValue == [tag |-> "None", val |-> <<>>]
Value(v) == [tag |-> "obj", val |-> <<v>>]
ListValue(l) == [tag |-> "list", val |-> l]

NoMsg == [size |-> Bytes(0, 0), max |-> Bytes(0, 0)]

\* ['NumPy ndarray', [obj.shape, obj.dtype]]: shape and dtype, no elements.
ArrayDescriptorNoDtype(o) ==
    Message("bcast", "NumPy ndarray",
            [kind |-> "descr", cls |-> "list", shape |-> o.shape,
             dtype |-> "float64", data |-> <<>>, sizeof |-> Bytes(0, 72),
             pickled |-> Bytes(0, 120)])
ArrayDescriptor(o) ==
    Message("bcast", "NumPy ndarray",
            [kind |-> "descr", cls |-> "list", shape |-> o.shape,
             dtype |-> o.dtype, data |-> <<>>, sizeof |-> Bytes(0, 72),
             pickled |-> Bytes(0, 120)])

\* [obj.__class__.__name__, obj]
ObjectMessage(o) == Message("bcast", o.cls, o)

\* The numbers of "(%i > %i)": obj.__sizeof__() and 2**31-1.
OversizeReport(o) == [size |-> o.sizeof, max |-> MaxPickle]

Return(r, v) ==
    /\ ret' = [ret EXCEPT ![r] = v]
    /\ pc' = [pc EXCEPT ![r] = "done"]

Raise(r, e) ==
    /\ exc' = [exc EXCEPT ![r] = e]
    /\ pc' = [pc EXCEPT ![r] = "raised"]

\* The call up to its first collective: the root sends the descriptor or the
\* object, a receiver enters comm.bcast(obj, root=root).
BcastCall(r) ==
    /\ op = "bcast"
    /\ pc[r] = "start"
    /\ IF r = root /\ IsNdArray(obj[r])
       THEN /\ Enter(r, ArrayDescriptor(obj[r]))
            /\ pc' = [pc EXCEPT ![r] = "bcast"]
            /\ UNCHANGED <<exc, msg>>
       ELSE IF r = root /\ PickleOverflows(obj[r])
       THEN /\ Raise(r, "InputError")
            /\ msg' = [msg EXCEPT ![r] = OversizeReport(obj[r])]
            /\ UNCHANGED posts
       ELSE IF r = root
       THEN /\ Enter(r, ObjectMessage(obj[r]))
            /\ pc' = [pc EXCEPT ![r] = "bcast"]
            /\ UNCHANGED <<exc, msg>>
       ELSE /\ Enter(r, Message("bcast", "", obj[r]))
            /\ pc' = [pc EXCEPT ![r] = "bcast"]
            /\ UNCHANGED <<exc, msg>>
    /\ UNCHANGED <<obj, completed, ret, shapes, buff>>

\* comm.bcast returns on the root; an array then goes out through comm.Bcast.
BcastRootSent(r) ==
    /\ op = "bcast"
    /\ pc[r] = "bcast"
    /\ r = root
    /\ BcastSent(1)
    /\ completed' = [completed EXCEPT ![r] = 1]
    /\ IF IsNdArray(obj[r])
       THEN /\ Enter(r, Message("Bcast", "", obj[r]))
            /\ pc' = [pc EXCEPT ![r] = "Bcast"]
            /\ UNCHANGED ret
       ELSE /\ Return(r, Value(obj[r]))
            /\ UNCHANGED posts
    /\ UNCHANGED <<obj, exc, msg, shapes, buff>>

\* The tag a receiver compares with 'NumPy ndarray'.
IsArrayTagNever(tag) == FALSE
IsArrayTag(tag) == tag = "NumPy ndarray"

\* comm.bcast returns on a receiver: "obj_type, obj = ..."; for an array the
\* receiver allocates np.empty(*obj) and enters comm.Bcast.
BcastReceived(r) ==
    /\ op = "bcast"
    /\ pc[r] = "bcast"
    /\ r # root
    /\ BcastArrived(1)
    /\ completed' = [completed EXCEPT ![r] = 1]
    /\ LET m == BcastMessage(1) IN
       IF IsArrayTag(m.tag)
       THEN /\ obj' = [obj EXCEPT ![r] = Empty(m.pay.shape, m.pay.dtype)]
            /\ Enter(r, Message("Bcast", "", Empty(m.pay.shape, m.pay.dtype)))
            /\ pc' = [pc EXCEPT ![r] = "Bcast"]
            /\ UNCHANGED ret
       ELSE /\ obj' = [obj EXCEPT ![r] = m.pay]
            /\ Return(r, Value(m.pay))
            /\ UNCHANGED posts
    /\ UNCHANGED <<exc, msg, shapes, buff>>

\* comm.Bcast returns: on the root obj is untouched, on a receiver the buffer
\* now holds the root's elements; "return(obj)".
BcastBufferDone(r) ==
    /\ op = "bcast"
    /\ pc[r] = "Bcast"
    /\ IF r = root THEN BcastSent(2) ELSE BcastArrived(2)
    /\ completed' = [completed EXCEPT ![r] = 2]
    /\ LET got == IF r = root THEN obj[r]
                  ELSE RecvInto(obj[r], BcastMessage(2).pay) IN
       /\ obj' = [obj EXCEPT ![r] = got]
       /\ Return(r, Value(got))
    /\ UNCHANGED <<posts, exc, msg, shapes, buff>>

\* What the root may broadcast, and what the other ranks may pass as obj.
BcastPayloads ==
    {ArrayOf(root, sh, dt) : sh \in Shapes, dt \in DTypes}
        \cup {SmallDict, PairTuple, LimitBytes, HugeBytes, HugeList}

\* A receiver's own obj: None, or an array of its own.
IgnoredArg(r, isArray) ==
    IF isArray THEN ArrayOf(r, <<1, 1>>, "int64")
    ELSE Generic("NoneType", <<0>>, Bytes(0, 16), Bytes(0, 4))

\* The root all ranks agree on, and what the run leaves to chance.
GroupSetup ==
    /\ root \in Ranks
    /\ eager \in BOOLEAN
    /\ junk \in {-1, 101}

\* Every rank is about to run the method on its argument.
GroupAtCall ==
    /\ obj = objArg
    /\ pc = [r \in Ranks |-> "start"]
    /\ posts = [r \in Ranks |-> <<>>]
    /\ completed = [r \in Ranks |-> 0]
    /\ shapes = [r \in Ranks |-> <<>>]
    /\ buff = [r \in Ranks |-> <<>>]
    /\ ret = [r \in Ranks |-> NoValue]
    /\ exc = [r \in Ranks |-> "none"]
    /\ msg = [r \in Ranks |-> NoMsg]

InitBcast ==
    /\ RegistryAtImport
    /\ AttrIdle
    /\ EmuIdle
    /\ op = "bcast"
    /\ GroupSetup
    /\ \E p \in BcastPayloads, isArray \in [Ranks -> BOOLEAN] :
           objArg = [r \in Ranks |-> IF r = root THEN p
                                     ELSE IgnoredArg(r, isArray[r])]
    /\ GroupAtCall

NextBcast ==
    \/ \E r \in Ranks : BcastCall(r) /\ UNCHANGED <<regVars, attrVars, emuVars, op, root, eager, junk, objArg>>
    \/ \E r \in Ranks : BcastRootSent(r) /\ UNCHANGED <<regVars, attrVars, emuVars, op, root, eager, junk, objArg>>
    \/ \E r \in Ranks : BcastReceived(r) /\ UNCHANGED <<regVars, attrVars, emuVars, op, root, eager, junk, objArg>>
    \/ \E r \in Ranks : BcastBufferDone(r) /\ UNCHANGED <<regVars, attrVars, emuVars, op, root, eager, junk, objArg>>

SpecBcast == InitBcast /\ [][NextBcast]_vars

\* Rank r's process takes its next step in bcast.
BcastStep(r) ==
    /\ \/ BcastCall(r)
       \/ BcastRootSent(r)
       \/ BcastReceived(r)
       \/ BcastBufferDone(r)
    /\ UNCHANGED <<regVars, attrVars, emuVars, op, root, eager, junk, objArg>>

\* The calls whose progress is followed: the root broadcasts an empty, a
\* one-element or a full array, or a generic object; the receivers all pass
\* None or all pass an array.
InitBcastFair ==
    /\ RegistryAtImport
    /\ AttrIdle
    /\ EmuIdle
    /\ op = "bcast"
    /\ GroupSetup
    /\ \E p \in BcastPayloads, isArray \in BOOLEAN :
           /\ IsNdArray(p) =>
                 p.shape \in {<<0, MaxDim>>, <<1, 1>>, <<MaxDim, MaxDim>>}
           /\ objArg = [r \in Ranks |-> IF r = root THEN p
                                         ELSE IgnoredArg(r, isArray)]
    /\ GroupAtCall

\* Every rank is a process of its own that keeps running: a step it can
\* take, it takes.
SpecBcastFair ==
    /\ InitBcastFair
    /\ [][NextBcast]_vars
    /\ \A r \in Ranks : WF_vars(BcastStep(r))

(***************************************************************************)
(* The transport's gather.  The root waits for every rank's k-th message;  *)
(* a sender returns at once on an eager transport, else when the root has  *)
(* completed the collective.                                               *)
(***************************************************************************)
GatherArrived(k) == \A r \in Ranks : Entered(r, k)

GatherSent(k) == eager \/ completed[root] >= k

\* What the ranks sent in their k-th collective, in rank order.
Gathered(k) == [i \in 1..NumRanks |-> posts[i - 1][k].pay]

RECURSIVE SumPickled(_)
SumPickled(l) ==
    IF Len(l) = 0 THEN Bytes(0, 0)
    ELSE BytesAdd(Head(l).pickled, SumPickled(Tail(l)))

\* The root's receive buffer for the pickles cannot be allocated when their
\* total length does not fit a 32-bit int: the gather raises SystemError.
GatherOverflows(k) == BytesGT(SumPickled(Gathered(k)), MaxPickle)

\* Gatherv(sendbuf, recvbuf) with recvbuf a plain array of NumRanks rows:
\* rank i's elements land at the start of row i.  Elements of another dtype
\* than the buffer's arrive as their bytes, read as the buffer's dtype.
GathervRow(row, sent, dtype) ==
    [j \in 1..Len(row) |->
        IF j > Len(sent.data) THEN row[j]
        ELSE IF sent.dtype # dtype THEN junk
        ELSE sent.data[j]]

GathervInto(rows, k, dtype) ==
    [i \in 1..NumRanks |-> GathervRow(rows[i], posts[i - 1][k].pay, dtype)]

\* A rank sent more elements than its row holds: the call is erroneous and
\* its outcome is the transport's choice.
GathervTruncates(rows, k) ==
    \E i \in 1..NumRanks : Len(posts[i - 1][k].pay.data) > Len(rows[i])

(***************************************************************************)
(* BufferComm.gather(obj, root)                                            *)
(***************************************************************************)
Max(S) == CHOOSE x \in S : \A y \in S : y <= x

\* np.max(shapes, axis=0) needs a rectangular list of integer tuples.
ShapesReduce(l) ==
    \A i \in 1..Len(l) :
        l[i].cls = "tuple" /\ Len(l[i].data) = Len(l[1].data)

\* np.max(shapes, axis=0)
MaxShape(l) ==
    [a \in 1..Len(l[1].data) |-> Max({l[i].data[a] : i \in 1..Len(l)})]

\* buff_shape[1]: np.product(np.max(shapes, axis=0))
RowWidth(l) == Prod(MaxShape(l))

\* np.empty(buff_shape, dtype=obj.dtype), as its rows.
EmptyRows(n, width) == [i \in 1..n |-> [j \in 1..width |-> junk]]

\* "if not np.all(obj.shape): obj = np.empty([1]*obj.ndim, dtype=obj.dtype)"
Placeholder(o) ==
    IF AllNonzero(o.shape) THEN o
    ELSE Empty([a \in 1..Len(o.shape) |-> 1], o.dtype)

\* "array_temp = array[:np.product(shape)]; array_temp.reshape(shape)"
WholeRow(row, shape, dtype) == NdArray(shape, dtype, row)
SliceRow(row, shape, dtype) ==
    NdArray(shape, dtype, SubSeq(row, 1, Prod(shape)))

\* "for array, shape in zip(buff, shapes)"
ArrList(rows, l, dtype) ==
    [i \in 1..(IF Len(rows) < Len(l) THEN Len(rows) ELSE Len(l)) |->
        SliceRow(rows[i], l[i].data, dtype)]

\* "if isinstance(obj, np.ndarray)": which path gather takes for obj.
UsesGathervNever(o) == FALSE
UsesGatherv(o) == IsNdArray(o)

\* "buff = None" on a sender.
SenderBuff == NoneValue

\* "except SystemError": the exceptions gather turns into InputError.
CatchesOverflowToo(e) == e \in {"SystemError", "OverflowError"}
Caught(e) == e = "SystemError"

\* An exception leaving the try block of the generic path.
RaiseFromTry(r, e) == Raise(r, IF Caught(e) THEN "InputError" ELSE e)

\* The call up to its first collective: comm.gather of the shape or of obj.
GatherCall(r) ==
    /\ op = "gather"
    /\ pc[r] = "start"
    /\ IF UsesGatherv(obj[r])
       THEN /\ Enter(r, Message("gather", "", ShapeTuple(obj[r].shape)))
            /\ pc' = [pc EXCEPT ![r] = "gather"]
            /\ UNCHANGED exc
       ELSE IF PickleOverflows(obj[r])
       THEN /\ RaiseFromTry(r, "OverflowError")
            /\ UNCHANGED posts
       ELSE /\ Enter(r, Message("gather", "", obj[r]))
            /\ pc' = [pc EXCEPT ![r] = "gather"]
            /\ UNCHANGED exc
    /\ UNCHANGED <<obj, completed, ret, msg, shapes, buff>>

\* Array path: comm.gather returns the shapes; the rank swaps an empty array
\* for the placeholder, the root sets up buff, and the rank enters Gatherv.
GatherShapesDone(r) ==
    /\ op = "gather"
    /\ pc[r] = "gather"
    /\ UsesGatherv(obj[r])
    /\ IF r = root THEN GatherArrived(1) ELSE GatherSent(1)
    /\ IF r = root /\ GatherOverflows(1)
       THEN /\ Raise(r, "SystemError")
            /\ UNCHANGED <<obj, completed, posts, shapes, buff>>
       ELSE IF r = root /\ ~ShapesReduce(Gathered(1))
       THEN /\ Raise(r, "NumPyError")
            /\ completed' = [completed EXCEPT ![r] = 1]
            /\ shapes' = [shapes EXCEPT ![r] = Gathered(1)]
            /\ obj' = [obj EXCEPT ![r] = Placeholder(obj[r])]
            /\ UNCHANGED <<posts, buff>>
       ELSE /\ completed' = [completed EXCEPT ![r] = 1]
            /\ obj' = [obj EXCEPT ![r] = Placeholder(obj[r])]
            /\ IF r = root
               THEN /\ shapes' = [shapes EXCEPT ![r] = Gathered(1)]
                    /\ buff' = [buff EXCEPT ![r] =
                                  EmptyRows(NumRanks, RowWidth(Gathered(1)))]
               ELSE UNCHANGED <<shapes, buff>>
            /\ Enter(r, Message("Gatherv", "", Ravel(Placeholder(obj[r]))))
            /\ pc' = [pc EXCEPT ![r] = "Gatherv"]
            /\ UNCHANGED exc
    /\ UNCHANGED <<ret, msg>>

\* Array path: comm.Gatherv returns; the root cuts buff into the arrays.
GatherBufferDone(r) ==
    /\ op = "gather"
    /\ pc[r] = "Gatherv"
    /\ IF r = root THEN GatherArrived(2) ELSE GatherSent(2)
    /\ IF r # root
       THEN /\ Return(r, SenderBuff)
            /\ completed' = [completed EXCEPT ![r] = 2]
            /\ UNCHANGED <<buff, exc>>
       ELSE \E fails \in {b \in BOOLEAN : b => GathervTruncates(buff[r], 2)} :
            IF fails
            THEN /\ Raise(r, "MPIError")
                 /\ UNCHANGED <<buff, completed, ret>>
            ELSE LET rows == GathervInto(buff[r], 2, obj[r].dtype) IN
                 /\ buff' = [buff EXCEPT ![r] = rows]
                 /\ completed' = [completed EXCEPT ![r] = 2]
                 /\ Return(r, ListValue(ArrList(rows, shapes[r], obj[r].dtype)))
                 /\ UNCHANGED exc
    /\ UNCHANGED <<obj, posts, msg, shapes>>

\* Generic path: comm.gather returns, or fails on the root.
GatherDone(r) ==
    /\ op = "gather"
    /\ pc[r] = "gather"
    /\ ~UsesGatherv(obj[r])
    /\ IF r = root THEN GatherArrived(1) ELSE GatherSent(1)
    /\ IF r = root /\ GatherOverflows(1)
       THEN /\ RaiseFromTry(r, "SystemError")
            /\ UNCHANGED <<completed, ret>>
       ELSE /\ completed' = [completed EXCEPT ![r] = 1]
            /\ Return(r, IF r = root THEN ListValue(Gathered(1)) ELSE NoneValue)
            /\ UNCHANGED exc
    /\ UNCHANGED <<obj, posts, msg, shapes, buff>>

\* Arrays of one dtype by the documented rule: same number of dimensions,
\* same shape except for one axis; the shared extent is 0 or MaxDim.
InitGatherArrays ==
    \E ext \in [Ranks -> 0..MaxDim], common \in {0, MaxDim} :
        objArg = [r \in Ranks |-> ArrayOf(r, <<ext[r], common>>, "float64")]

\* Non-empty arrays, the one of the rank after the root of another dtype.
InitGatherOtherDType ==
    objArg = [r \in Ranks |->
                ArrayOf(r, <<1 + (r % MaxDim), MaxDim>>,
                        IF r = (root + 1) % NumRanks THEN "int64"
                        ELSE "float64")]

\* Generic objects on every rank.
InitGatherObjects ==
    objArg \in [Ranks -> {SmallDict, GiBytes, HugeBytes}]

\* Some ranks pass an array and the others a generic object.
InitGatherMixed ==
    \E isArray \in [Ranks -> BOOLEAN], isTuple \in [Ranks -> BOOLEAN] :
        /\ \E r \in Ranks : isArray[r]
        /\ \E r \in Ranks : ~isArray[r]
        /\ objArg = [r \in Ranks |->
                       IF isArray[r] THEN ArrayOf(r, <<1, MaxDim>>, "float64")
                       ELSE IF isTuple[r] THEN PairTuple ELSE SmallDict]

InitGather ==
    /\ RegistryAtImport
    /\ AttrIdle
    /\ EmuIdle
    /\ op = "gather"
    /\ GroupSetup
    /\ \/ InitGatherArrays
       \/ InitGatherOtherDType
       \/ InitGatherObjects
       \/ InitGatherMixed
    /\ GroupAtCall

NextGather ==
    \/ \E r \in Ranks : GatherCall(r) /\ UNCHANGED <<regVars, attrVars, emuVars, op, root, eager, junk, objArg>>
    \/ \E r \in Ranks : GatherShapesDone(r) /\ UNCHANGED <<regVars, attrVars, emuVars, op, root, eager, junk, objArg>>
    \/ \E r \in Ranks : GatherBufferDone(r) /\ UNCHANGED <<regVars, attrVars, emuVars, op, root, eager, junk, objArg>>
    \/ \E r \in Ranks : GatherDone(r) /\ UNCHANGED <<regVars, attrVars, emuVars, op, root, eager, junk, objArg>>

SpecGather == InitGather /\ [][NextGather]_vars

\* Rank r's process takes its next step in gather.
GatherStep(r) ==
    /\ \/ GatherCall(r)
       \/ GatherShapesDone(r)
       \/ GatherBufferDone(r)
       \/ GatherDone(r)
    /\ UNCHANGED <<regVars, attrVars, emuVars, op, root, eager, junk, objArg>>

\* Every rank is a process of its own that keeps running.
SpecGatherFair == SpecGather /\ \A r \in Ranks : WF_vars(GatherStep(r))

(***************************************************************************)
(* bcast's properties.                                                     *)
(***************************************************************************)
\* C4: when every rank calls bcast with the same root, each call that
\* returns, returns the root's payload: the root its own obj, every other
\* rank an equal value (for an array the same shape, dtype and elements),
\* whatever that rank passed as obj.
C4_BcastReturnsPayload ==
    op = "bcast" =>
        \A r \in Ranks : pc[r] = "done" => ret[r] = Value(objArg[root])

\* A broadcast of an int64 array of several elements from a root other than
\* rank 0 has returned everywhere, one receiver having passed its own array.
C4_Witness ==
    /\ op = "bcast"
    /\ root # 0
    /\ \A r \in Ranks : pc[r] = "done"
    /\ IsNdArray(objArg[root])
    /\ objArg[root].dtype = "int64"
    /\ Len(objArg[root].data) >= 2
    /\ \E r \in Ranks \ {root} : IsNdArray(objArg[r])

\* The root passed a generic object whose pickle exceeds 2^31 - 1 bytes.
OversizedBcast ==
    /\ op = "bcast"
    /\ ~IsNdArray(objArg[root])
    /\ PickleOverflows(objArg[root])

\* C8: an oversized generic broadcast fails on the root with InputError,
\* whose message gives the payload's byte size, a size past the ceiling, and
\* the ceiling 2^31 - 1; no other rank raises, and the other ranks stay in
\* their bcast call.
C8_OversizedBcastReport ==
    (OversizedBcast /\ pc[root] # "start") =>
        /\ exc[root] = "InputError"
        /\ msg[root].max = Bytes(1, 1073741823)
        /\ BytesGT(msg[root].size, msg[root].max)
        /\ \A r \in Ranks \ {root} :
              exc[r] = "none" /\ pc[r] \in {"start", "bcast"}

\* The transport primitives rank r has issued so far, in order.
Primitives(r) == [k \in 1..Len(posts[r]) |-> posts[r][k].op]

IsPrefix(s, t) == Len(s) <= Len(t) /\ s = SubSeq(t, 1, Len(s))

\* What bcast must issue for the root's payload.
BcastPrimitives ==
    IF IsNdArray(objArg[root]) THEN <<"bcast", "Bcast">> ELSE <<"bcast">>

\* C16: in a bcast with one root, every rank issues the same primitives in
\* the same order: one generic broadcast (from the root the descriptor with
\* the array's shape and dtype, or the tagged payload), then one typed
\* broadcast exactly when the root's payload is an array, a receiver joining
\* it exactly when the tag it received is the array tag; and unless the
\* payload is too large, every rank eventually returns.
C16_BcastProtocol ==
    /\ [](op = "bcast" =>
            \A r \in Ranks :
                /\ IsPrefix(Primitives(r), BcastPrimitives)
                /\ pc[r] = "done" => Primitives(r) = BcastPrimitives
                /\ (r # root /\ completed[r] >= 1) =>
                      (Len(posts[r]) = 2 <=> posts[root][1].tag = "NumPy ndarray")
                /\ (r = root /\ Len(posts[r]) >= 1) =>
                      IF IsNdArray(objArg[r])
                      THEN /\ posts[r][1].tag = "NumPy ndarray"
                           /\ posts[r][1].pay.shape = objArg[r].shape
                           /\ posts[r][1].pay.dtype = objArg[r].dtype
                      ELSE /\ posts[r][1].tag = objArg[r].cls
                           /\ posts[r][1].pay = objArg[r])
    /\ (op = "bcast" /\ ~OversizedBcast) ~> (\A r \in Ranks : pc[r] = "done")

\* Every rank is through both broadcasts of an array, on a transport whose
\* sends wait for the receivers.
C16_Witness ==
    /\ op = "bcast"
    /\ ~eager
    /\ root # 0
    /\ IsNdArray(objArg[root])
    /\ \A r \in Ranks : pc[r] = "done" /\ Primitives(r) = <<"bcast", "Bcast">>

(***************************************************************************)
(* gather's properties.                                                    *)
(***************************************************************************)
AllArrays == \A r \in Ranks : IsNdArray(objArg[r])
AllObjects == \A r \in Ranks : ~IsNdArray(objArg[r])
MixedKinds == ~AllArrays /\ ~AllObjects
SameDType == \A r \in Ranks : objArg[r].dtype = objArg[root].dtype

\* Entry i of the root's result is rank i's array: shape, dtype, elements.
RootHasArrayOf(i) ==
    /\ ret[root].val[i + 1].shape = objArg[i].shape
    /\ ret[root].val[i + 1].dtype = objArg[i].dtype
    /\ ret[root].val[i + 1].data = objArg[i].data

\* C5 as stated: when every rank passes an array (same number of dimensions,
\* shapes differing on one axis at most), the root's result has one array per
\* rank, entry i with rank i's shape and rank i's elements, whatever the
\* receive buffer's padding held.
C5_GatherReconstruction ==
    (op = "gather" /\ AllArrays /\ pc[root] = "done") =>
        /\ ret[root].tag = "list"
        /\ Len(ret[root].val) = NumRanks
        /\ \A i \in Ranks :
              /\ ret[root].val[i + 1].shape = objArg[i].shape
              /\ ret[root].val[i + 1].data = objArg[i].data

\* The reconstruction holds for arrays that all have the root's dtype.
C5_GatherReconstructionSameDType ==
    (op = "gather" /\ AllArrays /\ SameDType /\ pc[root] = "done") =>
        /\ ret[root].tag = "list"
        /\ Len(ret[root].val) = NumRanks
        /\ \A i \in Ranks : RootHasArrayOf(i)

\* The root, not rank 0, has gathered arrays of different sizes: one fills
\* its row of the buffer, one leaves padding, one is empty.
C5_Witness ==
    /\ op = "gather"
    /\ AllArrays
    /\ SameDType
    /\ root # 0
    /\ pc[root] = "done"
    /\ \E i, j, k \in Ranks :
          /\ Len(objArg[i].data) = Len(buff[root][1])
          /\ Len(objArg[i].data) > Len(objArg[j].data)
          /\ Len(objArg[j].data) > 1
          /\ Len(objArg[k].data) = 0

HasEmptyAxis(r) == ~AllNonzero(objArg[r].shape)

\* C6: in a gather of arrays of which some have a zero-sized dimension, no
\* rank fails, and the root's result gives each such rank its own
\* (zero-sized) shape.
C6_ZeroSizeGather ==
    (op = "gather" /\ AllArrays /\ \E r \in Ranks : HasEmptyAxis(r)) =>
        /\ \A r \in Ranks : exc[r] = "none"
        /\ pc[root] = "done" =>
              \A r \in Ranks :
                  HasEmptyAxis(r) => ret[root].val[r + 1].shape = objArg[r].shape

\* C7: a gather call that returns, returns on the root a list of NumRanks
\* entries, entry i being what rank i sent (its array's shape and, for one
\* dtype, its elements; or its generic object), and returns None on every
\* other rank.
C7_GatherReturnByRole ==
    op = "gather" =>
        /\ \A r \in Ranks \ {root} : pc[r] = "done" => ret[r] = NoneValue
        /\ pc[root] = "done" =>
              /\ ret[root].tag = "list"
              /\ Len(ret[root].val) = NumRanks
              /\ AllObjects => \A i \in Ranks : ret[root].val[i + 1] = objArg[i]
              /\ AllArrays =>
                    \A i \in Ranks :
                        ret[root].val[i + 1].shape = objArg[i].shape
              /\ (AllArrays /\ SameDType) => \A i \in Ranks : RootHasArrayOf(i)

\* Every rank has returned from a gather of generic objects, not all the
\* same, whose root is the last rank.
C7_Witness ==
    /\ op = "gather"
    /\ AllObjects
    /\ root = NumRanks - 1
    /\ \A r \in Ranks : pc[r] = "done"
    /\ objArg[0] # objArg[root]

\* C9: in a gather, InputError is raised on the root only, and once the root
\* has raised it no other rank has failed: each is still in its call or has
\* returned.
C9_TooLargeOnRootOnly ==
    op = "gather" =>
        /\ \A r \in Ranks : exc[r] = "InputError" => r = root
        /\ exc[root] = "InputError" =>
              \A r \in Ranks \ {root} :
                  exc[r] = "none" /\ pc[r] \in {"gather", "done"}

\* The root has raised InputError, one sender has returned None and another
\* is still inside comm.gather.
C9_Witness ==
    /\ op = "gather"
    /\ AllObjects
    /\ exc[root] = "InputError"
    /\ \E r \in Ranks \ {root} : pc[r] = "done" /\ ret[r] = NoneValue
    /\ \E r \in Ranks \ {root} : pc[r] = "gather"

SlotWidth == RowWidth([i \in 1..NumRanks |-> ShapeTuple(objArg[i - 1].shape)])

\* C18: in a gather of arrays, the root's receive buffer has one slot per
\* rank, each as wide as the product of the per-axis maxima of the shapes,
\* and no rank transmits more elements than a slot holds, zero-sized arrays
\* on every rank included.
C18_ReceiveCapacity ==
    (op = "gather" /\ AllArrays) =>
        /\ buff[root] # <<>> =>
              /\ Len(buff[root]) = NumRanks
              /\ \A i \in 1..NumRanks : Len(buff[root][i]) = SlotWidth
        /\ \A r \in Ranks :
              Entered(r, 2) => Len(posts[r][2].pay.data) <= SlotWidth

\* What gather must issue for the kind of payload all ranks pass.
GatherPrimitives ==
    IF AllArrays THEN <<"gather", "Gatherv">> ELSE <<"gather">>

\* A payload, or all payloads together, exceed what the generic path carries.
SizeLimitHit ==
    /\ AllObjects
    /\ \/ \E r \in Ranks : PickleOverflows(objArg[r])
       \/ BytesGT(SumPickled([i \in 1..NumRanks |-> objArg[i - 1]]), MaxPickle)

\* C17: in a gather with one root where all ranks pass arrays or all pass
\* generic objects, every rank issues the same primitives in the same order
\* (arrays: a generic gather of the shape, then a typed gather for which
\* only the root holds a receive buffer; objects: one generic gather), and
\* unless a size limit is hit no rank fails and every rank eventually
\* returns.
C17_GatherTermination ==
    /\ []((op = "gather" /\ (AllArrays \/ AllObjects)) =>
            \A r \in Ranks :
                /\ IsPrefix(Primitives(r), GatherPrimitives)
                /\ pc[r] = "done" => Primitives(r) = GatherPrimitives
                /\ r # root => buff[r] = <<>>
                /\ ~SizeLimitHit => pc[r] # "raised")
    /\ (op = "gather" /\ (AllArrays \/ AllObjects) /\ ~SizeLimitHit)
          ~> (\A r \in Ranks : pc[r] = "done")

(***************************************************************************)
(* A BufferComm over the emulation layer: the wrapped handle is a          *)
(* dummyMPI.Intracomm, so the group has the one rank 0 and every comm      *)
(* method returns at once.  A call of bcast or gather is one step.         *)
(***************************************************************************)
Self == {0}

\* Comm.bcast(obj) and Comm.Bcast(buf): the argument.
DummyBcast(o) == o

\* Comm.gather(sendobj): [sendobj]
DummyGather(o) == <<o>>

\* Comm.Gatherv(sendbuf, recvbuf) is _scatter_gather: "recvbuf[:] = sendbuf"
\* for a recvbuf of one row; NumPy repeats a single element over the row and
\* rejects any other length than the row's.
DummyGatherv(sendbuf, rows) ==
    IF Len(sendbuf.data) = Len(rows[1])
    THEN [exc |-> "none", rows |-> <<sendbuf.data>>]
    ELSE IF Len(sendbuf.data) = 1
    THEN [exc |-> "none",
          rows |-> <<[j \in 1..Len(rows[1]) |-> sendbuf.data[1]]>>]
    ELSE [exc |-> "ValueError", rows |-> rows]

\* BufferComm.bcast(obj, root=0): rank 0 is the root, both comm calls return.
SingleBcast ==
    /\ op = "bcast"
    /\ pc[0] = "start"
    /\ Return(0, Value(DummyBcast(obj[0])))
    /\ UNCHANGED <<obj, posts, completed, shapes, buff, exc, msg>>

\* BufferComm.gather(obj, root=0) of an array.
SingleGatherArray ==
    /\ op = "gather"
    /\ pc[0] = "start"
    /\ UsesGatherv(obj[0])
    /\ LET l == DummyGather(ShapeTuple(obj[0].shape))
           sendobj == Placeholder(obj[0])
           got == DummyGatherv(Ravel(sendobj), EmptyRows(1, RowWidth(l))) IN
       /\ shapes' = [shapes EXCEPT ![0] = l]
       /\ obj' = [obj EXCEPT ![0] = sendobj]
       /\ buff' = [buff EXCEPT ![0] = got.rows]
       /\ IF got.exc # "none"
          THEN Raise(0, got.exc) /\ UNCHANGED ret
          ELSE /\ Return(0, ListValue(ArrList(got.rows, l, sendobj.dtype)))
               /\ UNCHANGED exc
    /\ UNCHANGED <<posts, completed, msg>>

\* BufferComm.gather(obj, root=0) of a generic object.
SingleGatherObject ==
    /\ op = "gather"
    /\ pc[0] = "start"
    /\ ~UsesGatherv(obj[0])
    /\ Return(0, ListValue(DummyGather(obj[0])))
    /\ UNCHANGED <<obj, posts, completed, shapes, buff, exc, msg>>

InitSingle ==
    /\ RegistryAtImport
    /\ AttrIdle
    /\ EmuIdle
    /\ op \in {"bcast", "gather"}
    /\ root = 0
    /\ eager = FALSE
    /\ junk \in {-1, 101}
    /\ objArg \in [Self ->
          {ArrayOf(0, sh, dt) : sh \in Shapes, dt \in DTypes}
             \cup {SmallDict, PairTuple, LimitBytes, GiBytes, HugeBytes,
                   HugeList}]
    /\ obj = objArg
    /\ pc = [r \in Self |-> "start"]
    /\ posts = [r \in Self |-> <<>>]
    /\ completed = [r \in Self |-> 0]
    /\ shapes = [r \in Self |-> <<>>]
    /\ buff = [r \in Self |-> <<>>]
    /\ ret = [r \in Self |-> NoValue]
    /\ exc = [r \in Self |-> "none"]
    /\ msg = [r \in Self |-> NoMsg]

NextSingle ==
    \/ SingleBcast /\ UNCHANGED <<regVars, attrVars, emuVars, op, root, eager, junk, objArg>>
    \/ SingleGatherArray /\ UNCHANGED <<regVars, attrVars, emuVars, op, root, eager, junk, objArg>>
    \/ SingleGatherObject /\ UNCHANGED <<regVars, attrVars, emuVars, op, root, eager, junk, objArg>>

SpecSingle == InitSingle /\ [][NextSingle]_vars

\* The same calls over an MPI transport whose group has one rank: what the
\* call can come to, by the transport's rules.
Came(e, v) == [exc |-> e, ret |-> v]

MpiSingleBcast(o) == {Came("none", Value(o))}

MpiSingleGather(o) ==
    IF ~IsNdArray(o) THEN {Came("none", ListValue(<<o>>))}
    ELSE LET l == <<ShapeTuple(o.shape)>>
             sent == Ravel(Placeholder(o))
             rows == EmptyRows(1, RowWidth(l))
             filled == <<GathervRow(rows[1], sent, o.dtype)>> IN
         {Came("none", ListValue(ArrList(filled, l, o.dtype)))}
             \cup (IF Len(sent.data) > Len(rows[1])
                   THEN {Came("MPIError", NoValue)} ELSE {})

\* C19: over the emulation layer (one rank, root 0) bcast returns its payload
\* and gather a one-element list holding the payload (an array with its
\* shape, a zero-sized one included), and for a payload the transport can
\* carry this is what the call comes to over an MPI transport of one rank.
C19_SingleParticipant ==
    (DOMAIN pc = Self /\ pc[0] # "start") =>
        /\ exc[0] = "none"
        /\ ret[0] = IF op = "bcast" THEN Value(objArg[0])
                    ELSE ListValue(<<objArg[0]>>)
        /\ ~PickleOverflows(objArg[0]) =>
              {Came(exc[0], ret[0])} =
                  IF op = "bcast" THEN MpiSingleBcast(objArg[0])
                  ELSE MpiSingleGather(objArg[0])

====
